---- MODULE Spec2Model ----
(***************************************************************************)
(* Model of the correlation bridge of mcp-relay-server                     *)
(* (src/ProjectMCP_Relay/main.py): the connection slot local_agent_ws,     *)
(* the pending-call table pending_requests, the lock ws_lock, the          *)
(* tools/call flow of handle_rpc / post_mcp and the worker flow ws_local.  *)
(*                                                                         *)
(* Every flow is an asyncio task: it runs without interruption between     *)
(* two suspension points (await), so one action of the model is the code   *)
(* between two awaits that can suspend.                                    *)
(***************************************************************************)
EXTENDS Integers, Sequences, FiniteSets, TLC

\* ---------------------------------------------------------------- bounds
MaxCalls == 2        \* number of caller flows (POST /mcp requests)
MaxConns == 2        \* number of worker connections that ever dial /ws
BufCap   == 1        \* frames a worker transport buffers before a write blocks

Calls    == 1..MaxCalls
Conns    == 1..MaxConns
Ids      == {"x", "y"}          \* correlation ids callers choose from
Payloads == {"p"}               \* payload a worker puts in a frame
Methods  == {"initialize", "tools/list", "tools/call", "other"}
None     == 0                   \* Python None / no call / no handle
NoId     == "null"              \* body.get("id") of an envelope without id
Keys     == Ids \cup {NoId}     \* what can be a key of pending_requests

\* main.py:183-217  the tools the relay lists; tools_registry.TOOLS holds them
TOOLS == {"unity_command", "python_exec", "ask_local_ai"}

\* tool_manager.py:22-23
tool_exists(name) == name \in TOOLS

\* inputs of the specification of well-formed calls
CallTools == {"unity_command"}

\* main.py:275  request.headers.get(MCP_SESSION_ID_HEADER) of a request
\* that carries no such header (or an empty one)
NoHeader == 0

\* session ids: the uuid4 generated for call c is named c; one more id stands
\* for an id the relay never generated
UnknownSession == MaxCalls + 1
Headers == {NoHeader} \cup Calls \cup {UnknownSession}

\* the header of the calls of the bridge specifications: first contact
CallHeaders == {NoHeader}

\* inputs of the specification of malformed and unknown calls
InputIds   == {"x", NoId}
InputTools == {"unity_command", "no_such_tool"}

VARIABLES
    local_agent_ws,     \* main.py:37   the connection slot: a handle or None
    pending_requests,   \* main.py:36   id -> the future registered (named by its call)
    ws_lock,            \* main.py:38   asyncio.Lock: holder and FIFO waiters
    pc,                 \* position of each caller flow in post_mcp/handle_rpc
    rpc_id,             \* body.get("id") of each call
    method,             \* body.get("method") of each call
    tool_name,          \* params.get("name") of each tools/call (main.py:224)
    emptyAtSubmit,      \* history: the slot was None when the call now waiting
                        \* for ws_lock was submitted
    fut,                \* state of the future created by each call (main.py:236)
    futResult,          \* the frame set into the future by set_result
    sendTo,             \* the handle whose send_text the call is awaiting
    resp,               \* the response post_mcp returned to the caller
    wsState,            \* position of each worker flow in ws_local
    closeTarget,        \* the old handle whose close() an install is awaiting
    closed,             \* transport of the handle is closed (by peer or by close())
    wsError,            \* the exception that ended ws_local (logged at 325/327)
    outbox,             \* frames written to a handle the worker has not read yet
    message_queue,      \* agent_server.py:30  the SSE push queue of the local agent
    active_sessions,    \* main.py:35   the keys of the session records
    mcp_session_id      \* the mcp-session-id header of each call's request

vars == <<local_agent_ws, pending_requests, ws_lock, pc, rpc_id, method,
          tool_name, emptyAtSubmit, fut, futResult, sendTo, resp, wsState, closeTarget,
          closed, wsError, outbox, message_queue, active_sessions,
          mcp_session_id>>

callVars == <<pc, rpc_id, method, tool_name, emptyAtSubmit, fut, futResult,
             sendTo, resp>>
wsVars   == <<wsState, closeTarget, closed, wsError>>

\* ------------------------------------------------------------- responses
NoResp == [kind |-> "none", id |-> "-", payload |-> "-"]

\* main.py:167-175 and 179-220: the locally answered methods
LocalResult(id) == [kind |-> "result", id |-> id, payload |-> "-"]

\* main.py:229-233
NotConnected(id) == [kind |-> "error", id |-> id, payload |-> "Local Agent not connected"]

\* main.py:250-254
TimeoutError(id) == [kind |-> "error", id |-> id, payload |-> "Local Agent timeout"]

\* main.py:256-260
UnknownMethod(id) == [kind |-> "error", id |-> id, payload |-> "Unknown method"]

\* main.py:286-290: the handler of every exception, a body without id
ServerError == [kind |-> "http500", id |-> "-", payload |-> "-"]

\* main.py:246-247: the worker's frame is returned as it was received
Reply(msg) == [kind |-> "reply", id |-> msg.id, payload |-> msg.payload]

NoMsg == [id |-> "-", payload |-> "-"]

\* ------------------------------------------------------------------ lock
RpcFlow(c) == <<"rpc", c>>
WsFlow(h)  == <<"ws", h>>

\* variant of LockFree: the block is entered without regard to the lock
LockIgnored == TRUE

\* asyncio.Lock.acquire fast path: not locked and nobody waiting
LockFree == ws_lock.holder = <<>> /\ ws_lock.waiters = <<>>

\* asyncio.Lock.acquire slow path: the flow queues behind the others
Enqueue(f) == [ws_lock EXCEPT !.waiters = Append(@, f)]

\* variant of CanWake: the first waiter is woken while the lock is still held
CanWakeWhileHeld(f) == /\ ws_lock.waiters # <<>>
                       /\ Head(ws_lock.waiters) = f

\* the woken first waiter may take the lock
CanWake(f) == /\ ws_lock.holder = <<>>
              /\ ws_lock.waiters # <<>>
              /\ Head(ws_lock.waiters) = f

\* the lock as the flow f leaves it when it takes it (fast path or woken)
Taken(f) == [holder  |-> f,
             waiters |-> IF ws_lock.waiters # <<>> /\ Head(ws_lock.waiters) = f
                         THEN Tail(ws_lock.waiters) ELSE ws_lock.waiters]

\* the lock as the flow f leaves it when it takes and releases in one step
Passed(f) == [holder  |-> <<>>,
              waiters |-> IF ws_lock.waiters # <<>> /\ Head(ws_lock.waiters) = f
                          THEN Tail(ws_lock.waiters) ELSE ws_lock.waiters]

\* asyncio.Lock.release at the end of "async with"
Released == [ws_lock EXCEPT !.holder = <<>>]

\* ------------------------------------------------------------------ Init
Init ==
    /\ local_agent_ws = None
    /\ pending_requests = [i \in Keys |-> None]
    /\ ws_lock = [holder |-> <<>>, waiters |-> <<>>]
    /\ pc = [c \in Calls |-> "idle"]
    /\ rpc_id = [c \in Calls |-> "-"]
    /\ method = [c \in Calls |-> "-"]
    /\ tool_name = [c \in Calls |-> "-"]
    /\ emptyAtSubmit = [c \in Calls |-> FALSE]
    /\ fut = [c \in Calls |-> "none"]
    /\ futResult = [c \in Calls |-> NoMsg]
    /\ sendTo = [c \in Calls |-> None]
    /\ resp = [c \in Calls |-> NoResp]
    /\ wsState = [h \in Conns |-> "unborn"]
    /\ closeTarget = [h \in Conns |-> None]
    /\ closed = [h \in Conns |-> FALSE]
    /\ wsError = [h \in Conns |-> "none"]
    /\ outbox = [h \in Conns |-> 0]
    /\ message_queue = <<>>
    /\ active_sessions = {}
    /\ mcp_session_id = [c \in Calls |-> NoHeader]

\* ------------------------------------------------------- caller flows
\* main.py:237  pending_requests[rpc_id] = future (an existing entry is overwritten)
Register(id, c) == [pending_requests EXCEPT ![id] = c]

\* main.py:249 and 323  del pending_requests[rpc_id]
Remove(id) == [pending_requests EXCEPT ![id] = None]

\* main.py:239  the handle send_text is called on: the slot as read at that line
WriteTarget == local_agent_ws

\* variant of EnterLocked: the future is registered before the slot is checked
EnterLockedRegisterFirst(c, i) ==
    /\ pending_requests' = Register(i, c)
    /\ IF local_agent_ws = None
       THEN /\ resp' = [resp EXCEPT ![c] = NotConnected(i)]
            /\ pc' = [pc EXCEPT ![c] = "done"]
            /\ ws_lock' = Passed(RpcFlow(c))
            /\ UNCHANGED <<fut, sendTo>>
       ELSE /\ fut' = [fut EXCEPT ![c] = "pending"]
            /\ sendTo' = [sendTo EXCEPT ![c] = WriteTarget]
            /\ pc' = [pc EXCEPT ![c] = "sending"]
            /\ ws_lock' = Taken(RpcFlow(c))
            /\ UNCHANGED resp

\* main.py:227-243  the body of "async with ws_lock" up to the await of send_text,
\* run by call c with id i once it has the lock
EnterLocked(c, i) ==
    IF local_agent_ws = None
    THEN /\ resp' = [resp EXCEPT ![c] = NotConnected(i)]
         /\ pc' = [pc EXCEPT ![c] = "done"]
         /\ ws_lock' = Passed(RpcFlow(c))
         /\ UNCHANGED <<pending_requests, fut, sendTo>>
    ELSE /\ pending_requests' = Register(i, c)
         /\ fut' = [fut EXCEPT ![c] = "pending"]
         /\ sendTo' = [sendTo EXCEPT ![c] = WriteTarget]
         /\ pc' = [pc EXCEPT ![c] = "sending"]
         /\ ws_lock' = Taken(RpcFlow(c))
         /\ UNCHANGED resp

\* A dispatch that also sends tools/list to the worker
RouteListToWorker(m) ==
    IF m = "initialize" THEN "local"
    ELSE IF m \in {"tools/list", "tools/call"} THEN "forward"
    ELSE "unknown"

\* main.py:166, 177, 223, 256  the dispatch of handle_rpc on the method name
Route(m) ==
    IF m \in {"initialize", "tools/list"} THEN "local"
    ELSE IF m = "tools/call" THEN "forward"
    ELSE "unknown"

\* main.py:277  str(uuid.uuid4()): an id no request has carried or been given
NewSession(c) == c

\* a POST that opens a record whether or not the request names a session
SessionsAfterPostAlways(c, s) == active_sessions \cup {NewSession(c)}

\* main.py:275-278  the records after a POST with header s
SessionsAfterPost(c, s) ==
    IF s = NoHeader THEN active_sessions \cup {NewSession(c)} ELSE active_sessions

\* main.py:294-296  the records after a DELETE with header s
SessionsAfterDelete(s) ==
    IF s # NoHeader /\ s \in active_sessions
    THEN active_sessions \ {s} ELSE active_sessions

\* main.py:269-284 and 158-233: POST /mcp with a parsed body, up to the first
\* suspension of handle_rpc
post_mcp(c, i, m, t, s) ==
    /\ pc[c] = "idle"
    /\ IF c = 1 THEN TRUE ELSE pc[c - 1] # "idle"   \* calls are numbered in arrival order
    /\ mcp_session_id' = [mcp_session_id EXCEPT ![c] = s]
    /\ active_sessions' = SessionsAfterPost(c, s)
    /\ rpc_id' = [rpc_id EXCEPT ![c] = i]
    /\ method' = [method EXCEPT ![c] = m]
    /\ tool_name' = [tool_name EXCEPT ![c] = IF m = "tools/call" THEN t ELSE "-"]
    /\ IF Route(m) = "local"
       THEN /\ resp' = [resp EXCEPT ![c] = LocalResult(i)]
            /\ pc' = [pc EXCEPT ![c] = "done"]
            /\ UNCHANGED <<pending_requests, fut, sendTo, ws_lock, emptyAtSubmit>>
       ELSE IF Route(m) = "unknown"
       THEN /\ resp' = [resp EXCEPT ![c] = UnknownMethod(i)]
            /\ pc' = [pc EXCEPT ![c] = "done"]
            /\ UNCHANGED <<pending_requests, fut, sendTo, ws_lock, emptyAtSubmit>>
       ELSE IF LockFree
       THEN EnterLocked(c, i) /\ UNCHANGED emptyAtSubmit
       ELSE /\ pc' = [pc EXCEPT ![c] = "lock_wait"]
            /\ ws_lock' = Enqueue(RpcFlow(c))
            /\ emptyAtSubmit' = [emptyAtSubmit EXCEPT ![c] = (local_agent_ws = None)]
            /\ UNCHANGED <<pending_requests, fut, sendTo, resp>>
    /\ UNCHANGED <<local_agent_ws, futResult, wsVars, outbox>>
    /\ UNCHANGED message_queue

\* main.py:271-272, 286-290  POST /mcp with a body that is not a JSON object:
\* request.json() or body.get raises and the caller gets the 500 answer
post_mcp_bad_body(c, s) ==
    /\ pc[c] = "idle"
    /\ IF c = 1 THEN TRUE ELSE pc[c - 1] # "idle"
    /\ mcp_session_id' = [mcp_session_id EXCEPT ![c] = s]
    /\ resp' = [resp EXCEPT ![c] = ServerError]
    /\ pc' = [pc EXCEPT ![c] = "done"]
    /\ UNCHANGED <<local_agent_ws, pending_requests, ws_lock, rpc_id, method,
                   tool_name, emptyAtSubmit, fut, futResult, sendTo, wsVars,
                   outbox>>
    /\ UNCHANGED <<message_queue, active_sessions>>

\* main.py:227  a call that waited for ws_lock is woken and enters the block
rpc_acquire(c) ==
    /\ pc[c] = "lock_wait"
    /\ CanWake(RpcFlow(c))
    /\ EnterLocked(c, rpc_id[c])
    /\ emptyAtSubmit' = [emptyAtSubmit EXCEPT ![c] = FALSE]
    /\ UNCHANGED <<local_agent_ws, rpc_id, method, tool_name, futResult, wsVars, outbox>>
    /\ UNCHANGED <<message_queue, active_sessions, mcp_session_id>>

\* main.py:239-243  send_text returns: the frame is in the transport's buffer.
\* It returns only while the buffer has room; the lock is released after it.
send_ok(c) ==
    /\ pc[c] = "sending"
    /\ ~closed[sendTo[c]]
    /\ outbox[sendTo[c]] < BufCap
    /\ outbox' = [outbox EXCEPT ![sendTo[c]] = @ + 1]
    /\ ws_lock' = Released
    /\ pc' = [pc EXCEPT ![c] = "waiting"]
    /\ UNCHANGED <<local_agent_ws, pending_requests, rpc_id, method, tool_name,
                   emptyAtSubmit, fut, futResult,
                   sendTo, resp, wsVars>>
    /\ UNCHANGED <<message_queue, active_sessions, mcp_session_id>>

\* main.py:239 raises (the transport is closed): the exception leaves
\* handle_rpc through "async with" (lock released) and post_mcp answers 500
\* (main.py:286-290); pending_requests keeps the entry of line 237.
send_fail(c) ==
    /\ pc[c] = "sending"
    /\ closed[sendTo[c]]
    /\ ws_lock' = Released
    /\ resp' = [resp EXCEPT ![c] = ServerError]
    /\ pc' = [pc EXCEPT ![c] = "done"]
    /\ sendTo' = [sendTo EXCEPT ![c] = None]
    /\ UNCHANGED <<local_agent_ws, pending_requests, rpc_id, method, tool_name,
                   emptyAtSubmit, fut, futResult,
                   wsVars, outbox>>
    /\ UNCHANGED <<message_queue, active_sessions, mcp_session_id>>

\* main.py:246  the deadline of wait_for passes while the future is pending:
\* wait_for cancels the future; the caller flow resumes in a later step
timer_fire(c) ==
    /\ pc[c] = "waiting"
    /\ fut[c] = "pending"
    /\ fut' = [fut EXCEPT ![c] = "cancelled"]
    /\ pc' = [pc EXCEPT ![c] = "timing_out"]
    /\ UNCHANGED <<local_agent_ws, pending_requests, ws_lock, rpc_id, method, tool_name,
                   emptyAtSubmit, futResult,
                   sendTo, resp, wsVars, outbox>>
    /\ UNCHANGED <<message_queue, active_sessions, mcp_session_id>>

\* main.py:246  the deadline passes after set_result and before the caller
\* flow has resumed. wait_for of Python <= 3.11 returns the result (that is
\* rpc_return); wait_for of Python >= 3.12 cancels the task and raises
\* TimeoutError: both builds exist, the model allows both. The result the
\* future holds is never read after that.
timer_fire_late(c) ==
    /\ pc[c] = "waiting"
    /\ fut[c] = "done"
    /\ pc' = [pc EXCEPT ![c] = "timing_out"]
    /\ futResult' = [futResult EXCEPT ![c] = NoMsg]
    /\ UNCHANGED <<local_agent_ws, pending_requests, ws_lock, rpc_id, method, tool_name,
                   emptyAtSubmit, fut,
                   sendTo, resp, wsVars, outbox>>
    /\ UNCHANGED <<message_queue, active_sessions, mcp_session_id>>

\* main.py:246-247  the future has a result: it is returned as the response
rpc_return(c) ==
    /\ pc[c] = "waiting"
    /\ fut[c] = "done"
    /\ resp' = [resp EXCEPT ![c] = Reply(futResult[c])]
    /\ pc' = [pc EXCEPT ![c] = "done"]
    /\ sendTo' = [sendTo EXCEPT ![c] = None]
    /\ UNCHANGED <<local_agent_ws, pending_requests, ws_lock, rpc_id, method, tool_name,
                   emptyAtSubmit, fut,
                   futResult, wsVars, outbox>>
    /\ UNCHANGED <<message_queue, active_sessions, mcp_session_id>>

\* main.py:248-254  except TimeoutError: del pending_requests[rpc_id], which
\* raises KeyError when the id has no entry (answered 500 by main.py:286-290)
timeout_cleanup(c) ==
    /\ pc[c] = "timing_out"
    /\ IF pending_requests[rpc_id[c]] # None
       THEN /\ pending_requests' = Remove(rpc_id[c])
            /\ resp' = [resp EXCEPT ![c] = TimeoutError(rpc_id[c])]
       ELSE /\ resp' = [resp EXCEPT ![c] = ServerError]
            /\ UNCHANGED pending_requests
    /\ pc' = [pc EXCEPT ![c] = "done"]
    /\ sendTo' = [sendTo EXCEPT ![c] = None]
    /\ UNCHANGED <<local_agent_ws, ws_lock, rpc_id, method, tool_name, emptyAtSubmit, fut,
                   futResult, wsVars, outbox>>
    /\ UNCHANGED <<message_queue, active_sessions, mcp_session_id>>

\* ------------------------------------------------------- worker flows
\* main.py:311  local_agent_ws = websocket
Installed(h) == h

\* main.py:329  finally: local_agent_ws = None, whatever the slot holds
Cleared(h) == None

\* main.py:308-311  the body of "async with ws_lock" of ws_local up to the
\* await of close(), run by connection h once it has the lock
WsEnterLocked(h) ==
    IF local_agent_ws = None
    THEN /\ local_agent_ws' = Installed(h)
         /\ wsState' = [wsState EXCEPT ![h] = "receiving"]
         /\ ws_lock' = Passed(WsFlow(h))
         /\ UNCHANGED closeTarget
    ELSE /\ closeTarget' = [closeTarget EXCEPT ![h] = local_agent_ws]
         /\ wsState' = [wsState EXCEPT ![h] = "closing"]
         /\ ws_lock' = Taken(WsFlow(h))
         /\ UNCHANGED local_agent_ws

\* main.py:302-311  a worker dials /ws: accept, then "async with ws_lock"
ws_local(h) ==
    /\ wsState[h] = "unborn"
    /\ IF h = 1 THEN TRUE ELSE wsState[h - 1] # "unborn"   \* connections too
    /\ IF LockFree
       THEN WsEnterLocked(h)
       ELSE /\ wsState' = [wsState EXCEPT ![h] = "lock_wait"]
            /\ ws_lock' = Enqueue(WsFlow(h))
            /\ UNCHANGED <<local_agent_ws, closeTarget>>
    /\ UNCHANGED <<pending_requests, callVars, closed, wsError, outbox>>
    /\ UNCHANGED <<message_queue, active_sessions, mcp_session_id>>

\* main.py:308  a connection that waited for ws_lock is woken
ws_acquire(h) ==
    /\ wsState[h] = "lock_wait"
    /\ CanWake(WsFlow(h))
    /\ WsEnterLocked(h)
    /\ UNCHANGED <<pending_requests, callVars, closed, wsError, outbox>>
    /\ UNCHANGED <<message_queue, active_sessions, mcp_session_id>>

\* main.py:310-311  close() of the old handle returns: the new handle is
\* installed and the lock released
close_ok(h) ==
    /\ wsState[h] = "closing"
    /\ closed' = [closed EXCEPT ![closeTarget[h]] = TRUE]
    /\ outbox' = [outbox EXCEPT ![closeTarget[h]] = 0]
    /\ local_agent_ws' = Installed(h)
    /\ wsState' = [wsState EXCEPT ![h] = "receiving"]
    /\ ws_lock' = Released
    /\ UNCHANGED <<pending_requests, callVars, closeTarget, wsError>>
    /\ UNCHANGED <<message_queue, active_sessions, mcp_session_id>>

\* main.py:310  close() of the old handle raises (its transport is already
\* closed): nothing catches it, so ws_local ends before line 311 and before
\* the try of line 315; the lock is released, the server drops connection h
close_fail(h) ==
    /\ wsState[h] = "closing"
    /\ closed[closeTarget[h]]
    /\ closed' = [closed EXCEPT ![h] = TRUE]
    /\ wsState' = [wsState EXCEPT ![h] = "ended"]
    /\ closeTarget' = [closeTarget EXCEPT ![h] = None]
    /\ wsError' = [wsError EXCEPT ![h] = "CloseError"]
    /\ ws_lock' = Released
    /\ UNCHANGED <<local_agent_ws, pending_requests, callVars, outbox>>
    /\ UNCHANGED <<message_queue, active_sessions, mcp_session_id>>

\* the worker's side of connection h goes away
peer_disconnect(h) ==
    /\ wsState[h] \in {"lock_wait", "closing", "receiving"}
    /\ ~closed[h]
    /\ closed' = [closed EXCEPT ![h] = TRUE]
    /\ outbox' = [outbox EXCEPT ![h] = 0]
    /\ UNCHANGED <<local_agent_ws, pending_requests, ws_lock, callVars, wsState,
                   closeTarget, wsError>>
    /\ UNCHANGED <<message_queue, active_sessions, mcp_session_id>>

\* the worker reads one frame out of its transport's buffer
worker_read(h) ==
    /\ ~closed[h]
    /\ outbox[h] > 0
    /\ outbox' = [outbox EXCEPT ![h] = @ - 1]
    /\ UNCHANGED <<local_agent_ws, pending_requests, ws_lock, callVars, wsVars>>
    /\ UNCHANGED <<message_queue, active_sessions, mcp_session_id>>

\* variant of ResolveTarget: a frame resolves the oldest registered call that
\* is still pending, as if replies came back in the order of the calls
ResolveInOrder(i) ==
    LET waiting == {c \in Calls : fut[c] = "pending" /\ pending_requests[rpc_id[c]] = c}
    IN  IF pending_requests[i] = None \/ waiting = {}
        THEN pending_requests[i]
        ELSE CHOOSE c \in waiting : \A d \in waiting : c <= d

\* main.py:321  the future a frame with id i resolves
ResolveTarget(i) == pending_requests[i]

\* main.py:317-323  one turn of the receive loop on a frame {id: i, payload: p}.
\* set_result on a future that is not pending raises InvalidStateError, which
\* line 326 catches: the loop ends and line 329 clears the slot.
ws_receive(h, i, p) ==
    /\ wsState[h] = "receiving"
    /\ ~closed[h]
    /\ LET c == ResolveTarget(i) IN
       IF c = None
       THEN UNCHANGED <<local_agent_ws, pending_requests, fut, futResult,
                        wsState, closed, wsError, outbox>>
       ELSE IF fut[c] = "pending"
       THEN /\ fut' = [fut EXCEPT ![c] = "done"]
            /\ futResult' = [futResult EXCEPT ![c] = [id |-> i, payload |-> p]]
            /\ pending_requests' = Remove(i)
            /\ UNCHANGED <<local_agent_ws, wsState, closed, wsError, outbox>>
       ELSE /\ local_agent_ws' = Cleared(h)
            /\ wsState' = [wsState EXCEPT ![h] = "ended"]
            /\ closed' = [closed EXCEPT ![h] = TRUE]
            /\ outbox' = [outbox EXCEPT ![h] = 0]
            /\ wsError' = [wsError EXCEPT ![h] = "InvalidStateError"]
            /\ UNCHANGED <<pending_requests, fut, futResult>>
    /\ UNCHANGED <<ws_lock, pc, rpc_id, method, tool_name, emptyAtSubmit, sendTo,
                   resp, closeTarget>>
    /\ UNCHANGED <<message_queue, active_sessions, mcp_session_id>>

\* main.py:318-319, 326-329  a frame that is not a JSON object: json.loads or
\* msg.get raises, the loop ends and the slot is cleared
ws_bad_frame(h) ==
    /\ wsState[h] = "receiving"
    /\ ~closed[h]
    /\ local_agent_ws' = Cleared(h)
    /\ wsState' = [wsState EXCEPT ![h] = "ended"]
    /\ closed' = [closed EXCEPT ![h] = TRUE]
    /\ outbox' = [outbox EXCEPT ![h] = 0]
    /\ wsError' = [wsError EXCEPT ![h] = "JSONDecodeError"]
    /\ UNCHANGED <<pending_requests, ws_lock, callVars, closeTarget>>
    /\ UNCHANGED <<message_queue, active_sessions, mcp_session_id>>

\* main.py:317, 324-329  receive_text raises WebSocketDisconnect on a closed
\* transport: the loop ends and the slot is cleared
ws_loop_end(h) ==
    /\ wsState[h] = "receiving"
    /\ closed[h]
    /\ local_agent_ws' = Cleared(h)
    /\ wsState' = [wsState EXCEPT ![h] = "ended"]
    /\ wsError' = [wsError EXCEPT ![h] = "WebSocketDisconnect"]
    /\ UNCHANGED <<pending_requests, ws_lock, callVars, closeTarget, closed, outbox>>
    /\ UNCHANGED <<message_queue, active_sessions, mcp_session_id>>

\* ------------------------------------------------------- specification
Next ==
    \/ \E c \in Calls, i \in Ids, m \in Methods, t \in CallTools, s \in CallHeaders :
          post_mcp(c, i, m, t, s)
    \/ \E c \in Calls, s \in CallHeaders : post_mcp_bad_body(c, s)
    \/ \E c \in Calls : rpc_acquire(c)
    \/ \E c \in Calls : send_ok(c)
    \/ \E c \in Calls : send_fail(c)
    \/ \E c \in Calls : timer_fire(c)
    \/ \E c \in Calls : timer_fire_late(c)
    \/ \E c \in Calls : rpc_return(c)
    \/ \E c \in Calls : timeout_cleanup(c)
    \/ \E h \in Conns : ws_local(h)
    \/ \E h \in Conns : ws_acquire(h)
    \/ \E h \in Conns : close_ok(h)
    \/ \E h \in Conns : close_fail(h)
    \/ \E h \in Conns : peer_disconnect(h)
    \/ \E h \in Conns : worker_read(h)
    \/ \E h \in Conns, i \in Ids, p \in Payloads : ws_receive(h, i, p)
    \/ \E h \in Conns : ws_bad_frame(h)
    \/ \E h \in Conns : ws_loop_end(h)

Spec == Init /\ [][Next]_vars

\* the same program on envelopes without id and on tool names that are not in
\* the registry
NextInputs ==
    \/ \E c \in Calls, i \in InputIds, m \in Methods, t \in InputTools,
             s \in CallHeaders :
          post_mcp(c, i, m, t, s)
    \/ \E c \in Calls, s \in CallHeaders : post_mcp_bad_body(c, s)
    \/ \E c \in Calls : rpc_acquire(c)
    \/ \E c \in Calls : send_ok(c)
    \/ \E c \in Calls : send_fail(c)
    \/ \E c \in Calls : timer_fire(c)
    \/ \E c \in Calls : timer_fire_late(c)
    \/ \E c \in Calls : rpc_return(c)
    \/ \E c \in Calls : timeout_cleanup(c)
    \/ \E h \in Conns : ws_local(h)
    \/ \E h \in Conns : ws_acquire(h)
    \/ \E h \in Conns : close_ok(h)
    \/ \E h \in Conns : close_fail(h)
    \/ \E h \in Conns : peer_disconnect(h)
    \/ \E h \in Conns : worker_read(h)
    \/ \E h \in Conns, i \in InputIds, p \in Payloads : ws_receive(h, i, p)
    \/ \E h \in Conns : ws_bad_frame(h)
    \/ \E h \in Conns : ws_loop_end(h)

SpecInputs == Init /\ [][NextInputs]_vars

\* the bridge's own steps are fair: the event loop runs every flow that is
\* ready, a timer that is armed fires, a write returns while the transport's
\* buffer has room. What the worker does (dial, read, reply, disconnect) is
\* not: worker_read, ws_receive, ws_bad_frame, peer_disconnect, ws_local.
FairSpec ==
    /\ Spec
    /\ \A c \in Calls : WF_vars(rpc_acquire(c))
    /\ \A c \in Calls : WF_vars(send_ok(c) \/ send_fail(c))
    /\ \A c \in Calls : WF_vars(timer_fire(c))
    /\ \A c \in Calls : WF_vars(rpc_return(c) \/ timer_fire_late(c))
    /\ \A c \in Calls : WF_vars(timeout_cleanup(c))
    /\ \A h \in Conns : WF_vars(ws_acquire(h))
    /\ \A h \in Conns : WF_vars(close_ok(h) \/ close_fail(h))
    /\ \A h \in Conns : WF_vars(ws_loop_end(h))

\* --------------------------------------------------------------- claims
\* connection b has run main.py:311 (connections take the FIFO lock in the
\* order they dial, so they are installed in the order of their numbers)
WasInstalled(b) ==
    wsState[b] \in {"receiving", "ended"} /\ wsError[b] # "CloseError"

\* a handle installed after a has taken its place in the slot
Superseded(a) == \E b \in Conns : b > a /\ WasInstalled(b)

\* connection h is installed and its worker is still connected
Live(h) == wsState[h] = "receiving" /\ ~closed[h]

\* C1: when the receive loop of a handle ends while another handle is the
\* current one, the slot still holds that other handle (clear by a superseded
\* handle is a no-op), and a tools/call that enters the lock block while the
\* handle installed last is live is not answered "Local Agent not connected".
C1_StaleClearIsNoOp ==
    [][/\ \A a \in Conns :
            (/\ wsState[a] = "receiving" /\ wsState'[a] = "ended"
             /\ local_agent_ws # None /\ local_agent_ws # a)
            => local_agent_ws' = local_agent_ws
       /\ \A c \in Calls, b \in Conns :
            (/\ Live(b) /\ ~Superseded(b)
             /\ pc[c] \in {"idle", "lock_wait"} /\ pc'[c] = "done")
            => resp'[c] # NotConnected(rpc_id'[c])]_vars

\* C2: a tools/call whose id already has a pending entry is rejected with an
\* error and the entry of the first call is left as it was.
C2_DuplicateIdRejected ==
    [][\A c \in Calls :
        (/\ pc[c] \in {"idle", "lock_wait"} /\ pc'[c] \notin {"idle", "lock_wait"}
         /\ method'[c] = "tools/call"
         /\ local_agent_ws # None
         /\ pending_requests[rpc_id'[c]] # None)
        => /\ pending_requests' = pending_requests
           /\ pc'[c] = "done"
           /\ resp'[c].kind = "error"
           /\ resp'[c].id = rpc_id'[c]]_vars

\* C3: a call whose deadline passed with no reply (its future was cancelled by
\* wait_for) returns the structured timeout error carrying its id, and the
\* table holds no entry of that call afterwards.
C3_TimeoutIsStructured ==
    \A c \in Calls :
        (pc[c] = "done" /\ fut[c] = "cancelled")
        => /\ resp[c] = TimeoutError(rpc_id[c])
           /\ pending_requests[rpc_id[c]] # c

\* no two calls that registered a future carry the same id
DistinctIds ==
    \A c, d \in Calls :
        (c # d /\ fut[c] # "none" /\ fut[d] # "none") => rpc_id[c] # rpc_id[d]

\* C4 (delivery): a future gets a result only from a frame carrying the id its
\* call registered, taken from the entry of that id; only that entry leaves
\* the table and no other call's future, position or response changes.
C4_Delivery ==
    \A c \in Calls :
        (fut[c] = "pending" /\ fut'[c] = "done")
        => /\ futResult'[c].id = rpc_id[c]
           /\ futResult'[c].payload \in Payloads
           /\ pending_requests[rpc_id[c]] = c
           /\ pending_requests' = Remove(rpc_id[c])
           /\ \A d \in Calls \ {c} : fut'[d] = fut[d] /\ futResult'[d] = futResult[d]
           /\ pc' = pc /\ resp' = resp

\* C4 (waiter): with pairwise distinct ids, the entry of a pending call's id
\* is that call's future, whatever was registered or resolved in between.
C4_Waiter ==
    DistinctIds =>
        \A c \in Calls :
            (pc[c] \in {"sending", "waiting"} /\ fut[c] = "pending")
            => pending_requests[rpc_id[c]] = c

\* C4 (caller): a caller that is answered with a worker frame gets the frame
\* that was set into its own future, and that frame carries its id.
C4_Returned ==
    \A c \in Calls :
        resp[c].kind = "reply"
        => resp[c] = Reply(futResult[c]) /\ resp[c].id = rpc_id[c]

\* C4: replies are matched to callers by id, in any arrival order, and a
\* delivery leaves the other pending calls alone.
C4_RepliesMatchedById ==
    [](C4_Waiter /\ C4_Returned) /\ [][C4_Delivery]_vars

\* C4 witness: call 2 was written after call 1 and is resolved before it.
C4_OutOfOrderReply ==
    /\ MaxCalls >= 2
    /\ pc[1] = "waiting" /\ fut[1] = "pending"
    /\ pc[2] = "waiting" /\ fut[2] = "done"
    /\ rpc_id[1] # rpc_id[2]
    /\ futResult[2].id = rpc_id[2]

\* C5: the step that ends the close of the old handle, whether close returned
\* or raised, leaves the new handle in the slot and the old one closed.
C5_InstallSurvivesClose ==
    [][\A h \in Conns :
        (wsState[h] = "closing" /\ wsState'[h] # "closing")
        => (local_agent_ws' = h /\ closed'[closeTarget[h]])]_vars

\* C6 (state): while a call is inside send_text it holds the lock and its
\* target handle has not been replaced by an install.
C6_WriteInProgress ==
    \A c \in Calls :
        pc[c] = "sending"
        => /\ ws_lock.holder = RpcFlow(c)
           /\ ~Superseded(sendTo[c])
           /\ local_agent_ws \in {sendTo[c], None}

\* C6 (steps): a write starts on the handle that is in the slot at that
\* moment, and a frame reaches only a handle that is neither closed nor
\* superseded, from the call that started the write on it.
C6_WriteSteps ==
    /\ \A c \in Calls :
           (pc[c] # "sending" /\ pc'[c] = "sending")
           => /\ local_agent_ws # None
              /\ sendTo'[c] = local_agent_ws
              /\ ~Superseded(local_agent_ws)
    /\ \A h \in Conns :
           outbox'[h] > outbox[h]
           => /\ ~closed[h] /\ ~Superseded(h)
              /\ \E c \in Calls :
                    pc[c] = "sending" /\ sendTo[c] = h /\ pc'[c] = "waiting"

\* C6: no call frame is written to a superseded or closed handle.
C6_WritesOnlyToCurrent ==
    []C6_WriteInProgress /\ [][C6_WriteSteps]_vars

\* C6 witness: a new connection waits for the lock while a call is writing to
\* the current handle.
C6_InstallHeldOffByWrite ==
    \E c \in Calls, h \in Conns :
        /\ pc[c] = "sending" /\ sendTo[c] # h
        /\ wsState[h] = "lock_wait"

\* C7: every call that was submitted eventually returns a response.
C7_EveryCallReturns ==
    \A c \in Calls : (pc[c] # "idle") ~> (pc[c] = "done")

\* call c runs the first lines of the "async with ws_lock" block in this step
EntersLockBlock(c) ==
    \/ pc[c] = "idle" /\ method'[c] = "tools/call" /\ pc'[c] \notin {"idle", "lock_wait"}
    \/ pc[c] = "lock_wait" /\ pc'[c] # "lock_wait"

\* the answer of the not-connected branch: immediate, nothing registered or written
AnsweredNotConnected(c) ==
    /\ pc'[c] = "done"
    /\ resp'[c] = NotConnected(rpc_id'[c])
    /\ pending_requests' = pending_requests
    /\ fut'[c] = "none"
    /\ outbox' = outbox

C9_LateReplyIsNoOp ==
    [][\A h \in Conns :
        (Live(h) /\ wsState'[h] = "ended")
        => wsError'[h] = "JSONDecodeError"]_vars

\* C10: a call whose write fails returns a structured error carrying its id
\* and its pending entry is gone when it returns.
C10_WriteFailureCleansUp ==
    [][\A c \in Calls :
        (pc[c] = "sending" /\ pc'[c] = "done")
        => /\ resp'[c].kind = "error"
           /\ resp'[c].id = rpc_id[c]
           /\ pending_requests'[rpc_id[c]] # c]_vars

\* call c returns a failure in this step
ReturnsFailure(c) ==
    pc[c] # "done" /\ pc'[c] = "done" /\ resp'[c].kind \in {"error", "http500"}

\* C11: the step in which a call fails leaves the entry and the future of
\* every other call, and the connection slot, as they were.
C11_FailureLeavesOthersAlone ==
    [][\A c \in Calls :
        ReturnsFailure(c)
        => /\ local_agent_ws' = local_agent_ws
           /\ \A d \in Calls \ {c} :
                /\ fut'[d] = fut[d]
                /\ \A i \in DOMAIN pending_requests :
                     pending_requests[i] = d => pending_requests'[i] = d]_vars

\* call c is inside the forwarding path: it waits for the lock, writes, or
\* waits for a reply
InForwardPath(c) == pc[c] \in {"lock_wait", "sending", "waiting", "timing_out"}

\* C12: nothing is ever registered under the missing id, and a tools/call
\* envelope without id never enters the forwarding path: it is answered at
\* once with a failure, whether or not a worker is connected.
C12_MalformedAnsweredLocally ==
    /\ pending_requests[NoId] = None
    /\ \A c \in Calls :
          (rpc_id[c] = NoId /\ method[c] = "tools/call")
          => /\ ~InForwardPath(c)
             /\ fut[c] = "none"
             /\ pc[c] = "done" => resp[c].kind \in {"error", "http500"}

\* C13: a tools/call whose tool is not in the registry is answered at once with
\* an error; it registers no future and never enters the forwarding path,
\* whether or not a worker is connected.
C13_UnknownToolFailsFast ==
    \A c \in Calls :
        (method[c] = "tools/call" /\ ~tool_exists(tool_name[c]))
        => /\ ~InForwardPath(c)
           /\ fut[c] = "none"
           /\ \A i \in Keys : pending_requests[i] # c
           /\ pc[c] = "done" => resp[c].kind = "error"

LocalMethods == {"initialize", "tools/list"}

\* C14: the step that takes in an initialize or tools/list call answers it in
\* that same step with a result carrying the call's id, and leaves the
\* connection slot, the pending table, every future, the lock (holder and
\* waiters) and everything written to any worker exactly as they were.
C14_LocalMethodsTouchNothing ==
    [][\A c \in Calls :
         (pc[c] = "idle" /\ pc'[c] # "idle" /\ method'[c] \in LocalMethods)
         => /\ pc'[c] = "done"
            /\ resp'[c] = LocalResult(rpc_id'[c])
            /\ UNCHANGED <<local_agent_ws, pending_requests, ws_lock, fut,
                           sendTo, outbox, wsVars>>]_vars

\* a local method has been answered while a worker is connected and an
\* earlier call holds the lock in the middle of its write
C14_LocalAnsweredDuringWrite ==
    \E c, d \in Calls :
        /\ d < c
        /\ method[c] \in LocalMethods /\ pc[c] = "done"
        /\ resp[c].kind = "result"
        /\ pc[d] = "sending" /\ ws_lock.holder = RpcFlow(d)
        /\ local_agent_ws # None
        /\ \E i \in Ids : pending_requests[i] = d

\* ------------------------------------------------------- local agent: SSE queue
\* agent_server.py:77  the results UnityPipeClient.send hands back
Events == {"e1", "e2", "e3"}

\* the capacity N the event queue is said to have, and the longest queue explored
QueueCap == 2
MaxQueued == QueueCap + 2

\* agent_server.py:67-88  one round of ws_listener in which the frame parses and
\* UnityPipeClient.send returns e: message_queue.put(e) appends to a queue
\* created without maxsize (line 30), so put never blocks and never evicts.
\* A round that raises instead is caught at line 83 and changes nothing.
ws_listener(e) ==
    /\ Len(message_queue) < MaxQueued
    /\ message_queue' = Append(message_queue, e)
    /\ UNCHANGED <<local_agent_ws, pending_requests, ws_lock, callVars, wsVars,
                   outbox, active_sessions, mcp_session_id>>

\* agent_server.py:111-118  event_generator: message_queue.get() takes the oldest
sse_endpoint ==
    /\ message_queue # <<>>
    /\ message_queue' = Tail(message_queue)
    /\ UNCHANGED <<local_agent_ws, pending_requests, ws_lock, callVars, wsVars,
                   outbox, active_sessions, mcp_session_id>>

NextQueue ==
    \/ \E e \in Events : ws_listener(e)
    \/ sse_endpoint

SpecQueue == Init /\ [][NextQueue]_vars

C16_ResponseCarriesId ==
    \A c \in Calls :
        (pc[c] = "done" /\ method[c] # "-")
        => /\ resp[c].id = rpc_id[c]
           /\ resp[c].kind \in {"result", "error", "reply"}

\* C17: no flow holds ws_lock while it is suspended on a network operation:
\* a caller inside send_text and a worker flow inside close() of the old
\* handle do not hold the lock.
C17_NoLockAcrossNetworkWait ==
    /\ \A c \in Calls : pc[c] = "sending" => ws_lock.holder # RpcFlow(c)
    /\ \A h \in Conns : wsState[h] = "closing" => ws_lock.holder # WsFlow(h)

\* C18: each forwarded call is resolved exactly once: a future that has been
\* resolved or cancelled never changes again, and the call returns either the
\* reply delivered to its future or the Timeout failure of its cancelled
\* future, with no entry of the table left pointing at it.
C18_ResolvedExactlyOnce ==
    [][\A c \in Calls :
         /\ fut[c] \in {"done", "cancelled"} => fut'[c] = fut[c]
         /\ (pc[c] \in {"waiting", "timing_out"} /\ pc'[c] = "done")
            => /\ \/ resp'[c].kind = "reply" /\ fut[c] = "done"
                  \/ resp'[c] = TimeoutError(rpc_id[c]) /\ fut[c] = "cancelled"
               /\ \A i \in Keys : pending_requests'[i] # c]_vars

\* C19: a call is resolved only by a frame of the connection it was written
\* to. A frame is read only from a connection that is installed and open, so
\* whenever a future gets its result the connection its call was written to
\* is still receiving on an open transport: a call whose connection has been
\* replaced or has disconnected is never resolved by a frame.
C19_ResolvedOnlyByOwnConnection ==
    [][\A c \in Calls :
         (fut[c] = "pending" /\ fut'[c] = "done") => Live(sendTo[c])]_vars

\* C20 (state): at most one call is between the not-connected check and the
\* end of its write, and no connection is in the middle of an install (closing
\* the old handle, about to set the new one) at the same time.
C20_OneWriteWindow ==
    /\ \A c, d \in Calls : (pc[c] = "sending" /\ pc[d] = "sending") => c = d
    /\ \A c \in Calls, h \in Conns : pc[c] = "sending" => wsState[h] # "closing"

\* C20 (steps): in a step taken while call c is inside that window no handle
\* is installed, no other call runs the not-connected check, and no other
\* call registers an entry or writes a frame.
C20_WindowSteps ==
    \A c \in Calls :
        pc[c] = "sending"
        => /\ local_agent_ws' \in {local_agent_ws, None}
           /\ \A h \in Conns : wsState'[h] = "receiving" => wsState[h] = "receiving"
           /\ \A d \in Calls \ {c} :
                 ~EntersLockBlock(d) /\ (fut[d] = "none" => fut'[d] = "none")
           /\ \A i \in Keys : pending_requests'[i] \in {pending_requests[i], None}
           /\ \A h \in Conns : outbox'[h] > outbox[h] => pc'[c] = "waiting"

\* C20: writes to the worker connection and installs of a new connection are
\* mutually exclusive, and the check, registration and write of one call are
\* not interleaved with those of another call.
C20_WritesAndInstallsExclusive ==
    []C20_OneWriteWindow /\ [][C20_WindowSteps]_vars

\* C20 witness: while one call is inside its write, a second call and a new
\* connection both wait for the lock.
C20_CallAndInstallHeldOff ==
    \E c, d \in Calls, h \in Conns :
        /\ pc[c] = "sending" /\ ws_lock.holder = RpcFlow(c)
        /\ pc[d] = "lock_wait"
        /\ wsState[h] = "lock_wait"
        /\ Len(ws_lock.waiters) = 2

\* ------------------------------------------------------- session records
\* main.py:292-297  DELETE /mcp with header s: no await, one step
delete_mcp(s) ==
    /\ active_sessions' = SessionsAfterDelete(s)
    /\ UNCHANGED <<local_agent_ws, pending_requests, ws_lock, callVars, wsVars,
                   outbox, message_queue, mcp_session_id>>

\* the headers the request of call c can carry: none, an id generated for an
\* earlier request, or an id the relay never generated
CanCarry(c) == {s \in Headers : s = NoHeader \/ s = UnknownSession \/ s < c}

\* inputs of the specification of sessions: one correlation id, one worker
SessionCallIds == {"x"}
SessionConns   == {1}

\* the relay with requests that carry any header, with DELETE /mcp, and with
\* one worker connection (its install never waits for the lock and never
\* finds an old handle to close)
NextSessions ==
    \/ \E c \in Calls, i \in SessionCallIds, m \in Methods, t \in CallTools :
          \E s \in CanCarry(c) : post_mcp(c, i, m, t, s)
    \/ \E c \in Calls : \E s \in CanCarry(c) : post_mcp_bad_body(c, s)
    \/ \E s \in Headers : delete_mcp(s)
    \/ \E c \in Calls : rpc_acquire(c)
    \/ \E c \in Calls : send_ok(c)
    \/ \E c \in Calls : send_fail(c)
    \/ \E c \in Calls : timer_fire(c)
    \/ \E c \in Calls : timer_fire_late(c)
    \/ \E c \in Calls : rpc_return(c)
    \/ \E c \in Calls : timeout_cleanup(c)
    \/ \E h \in SessionConns : ws_local(h)
    \/ \E h \in Conns : peer_disconnect(h)
    \/ \E h \in Conns : worker_read(h)
    \/ \E h \in Conns, i \in SessionCallIds, p \in Payloads : ws_receive(h, i, p)
    \/ \E h \in Conns : ws_bad_frame(h)
    \/ \E h \in Conns : ws_loop_end(h)

SpecSessions == Init /\ [][NextSessions]_vars

\* call c is submitted in this step
Submitted(c) == pc[c] = "idle" /\ pc'[c] # "idle"

\* the session records and the bridge in a step that submits no call: either
\* the records stay as they are, or exactly one is removed and nothing else
\* changes (a DELETE naming it)
OnlyDeleteRemoves ==
    \/ active_sessions' = active_sessions
    \/ /\ \E s \in active_sessions : active_sessions' = active_sessions \ {s}
       /\ UNCHANGED <<local_agent_ws, pending_requests, ws_lock, callVars,
                      wsVars, outbox>>

\* the bridge in a step that submits call c: the slot is untouched and the
\* table changes by nothing but the registration of c itself
BridgeUntouchedBySession(c) ==
    /\ local_agent_ws' = local_agent_ws
    /\ pending_requests' \in {pending_requests, Register(rpc_id'[c], c)}

\* C21 (as claimed): a POST without a session-id header adds exactly one new
\* record, a POST that supplies a session id adds none, a record is removed
\* only by a DELETE (one record, nothing else changing), and these steps
\* leave the connection slot and the pending table to the bridge.
C21_PostWithoutHeaderAddsOne ==
    [][/\ \A c \in Calls :
            Submitted(c)
            => /\ IF mcp_session_id'[c] = NoHeader
                  THEN /\ NewSession(c) \notin active_sessions
                       /\ active_sessions' = active_sessions \cup {NewSession(c)}
                  ELSE active_sessions' = active_sessions
               /\ BridgeUntouchedBySession(c)
       /\ (\A c \in Calls : ~Submitted(c)) => OnlyDeleteRemoves]_vars

\* the body of the request of call c parsed as a JSON object (main.py:272-273)
BodyParsed(c) == method[c] # "-"

\* C21 (amended): a POST without a session-id header whose body parses as a
\* JSON object adds exactly one new record; a POST whose body does not parse,
\* or that supplies a session id, adds none; a record is removed only by a
\* DELETE (one record, nothing else changing), and these steps leave the
\* connection slot and the pending table to the bridge.
C21_SessionLifecycle ==
    [][/\ \A c \in Calls :
            Submitted(c)
            => /\ IF mcp_session_id'[c] = NoHeader /\ BodyParsed(c)'
                  THEN /\ NewSession(c) \notin active_sessions
                       /\ active_sessions' = active_sessions \cup {NewSession(c)}
                  ELSE active_sessions' = active_sessions
               /\ BridgeUntouchedBySession(c)
       /\ (\A c \in Calls : ~Submitted(c)) => OnlyDeleteRemoves]_vars

\* C21 witness: the record opened by a POST without header has been deleted
\* again, a later POST that named a session opened none, and its call is
\* pending on the worker meanwhile.
C21_SessionClosedWhileCallPending ==
    \E c, d \in Calls :
        /\ c < d
        /\ pc[c] # "idle" /\ BodyParsed(c) /\ mcp_session_id[c] = NoHeader
        /\ NewSession(c) \notin active_sessions
        /\ mcp_session_id[d] = NewSession(c)
        /\ NewSession(d) \notin active_sessions
        /\ fut[d] = "pending" /\ pending_requests[rpc_id[d]] = d

====================================================================
